---- MODULE Spec2Model ----
(***************************************************************************)
(* Portfolio risk, optimization and projection services of finchat.       *)
(*                                                                         *)
(* services/fastapi-portfolio-service/main.py: analyze_portfolio,          *)
(*   optimize_portfolio, run_monte_carlo_simulation (stateless handlers    *)
(*   over a price frame downloaded per request).                           *)
(* fastapi-service/main.py and mcp-server: PortfolioAnalyzer /             *)
(*   FinanceAnalyzer (get_market_data, calculate_portfolio_risk).          *)
(*                                                                         *)
(* Numbers.  Prices, shares and values are integers.  A weight is the      *)
(* exact fraction num / den, kept as its numerator beside the common       *)
(* denominator (the total value).  Optimizer weights and risk tolerance    *)
(* are in hundredths (0.20 is 20).  NaN is the float not-a-number: every   *)
(* comparison with it is false and arithmetic on it gives NaN.  Returns    *)
(* and the metrics derived from them are exact fractions; a volatility is  *)
(* kept as its square.                                                     *)
(***************************************************************************)
EXTENDS Integers, Sequences, FiniteSets, TLC

VARIABLES pc, op, req, frame, market, benchmark, resp, rng, earlier,
          service, server

vars == <<pc, op, req, frame, market, benchmark, resp, rng, earlier,
          service, server>>

(***************************************************************************)
(* Bounds of the model.                                                    *)
(***************************************************************************)
MaxAssets == 2
MaxCloses == 3
MaxRegistrations == 2

Symbols == {"A", "B"}
ShareSet == {0, 1}
PriceSet == {1, 2}

(***************************************************************************)
(* Floats that are not numbers.                                            *)
(***************************************************************************)
NaN == -1

IsNum(x) == x # NaN

\* x * y on floats
FMul(x, y) == IF IsNum(x) /\ IsNum(y) THEN x * y ELSE NaN

\* x <= 0 on floats: false for NaN
FLeqZero(x) == IsNum(x) /\ x <= 0

(***************************************************************************)
(* Price history of one symbol, as the download returns it.  The history   *)
(* is a head of `pre` daily closes, all at the lowest price, followed by   *)
(* the two most recent rows of the frame, each a close or NaN (the symbol  *)
(* has no close on that date).  Row 0 is the last row of the head, rows 1  *)
(* and 2 are the tail.  The dates on which a symbol has a close are        *)
(* contiguous.                                                             *)
(***************************************************************************)
Max(S) == CHOOSE x \in S : \A y \in S : y <= x
Min(S) == CHOOSE x \in S : \A y \in S : x <= y

MinObsRisk == 10
MinObsOpt == 50

Cells == PriceSet \cup {NaN}
Rows == {0, 1, 2}

Cell(h, i) ==
    IF i = 0 THEN (IF h.pre > 0 THEN Min(PriceSet) ELSE NaN) ELSE h.tail[i]

\* len(series.dropna())
Obs(h) == h.pre + Cardinality({i \in {1, 2} : IsNum(h.tail[i])})

\* index of the last row on which the symbol has a close (-1: none)
LastObs(h) ==
    IF Obs(h) = 0 THEN 0 - 1
    ELSE CHOOSE i \in Rows : IsNum(Cell(h, i)) /\ \A j \in Rows : IsNum(Cell(h, j)) => j <= i


(***************************************************************************)
(* Requests.                                                               *)
(***************************************************************************)
SeqsUpTo(S, n) == UNION {[1..k -> S] : k \in 0..n}

AssetLists == SeqsUpTo([symbol : Symbols, shares : ShareSet], MaxAssets)

Range(s) == {s[i] : i \in DOMAIN s}

\* symbols = [asset.symbol for asset in request.assets]
SymbolList(assets) == [i \in DOMAIN assets |-> assets[i].symbol]

\* shares = {asset.symbol: asset.shares for asset in request.assets}
\* (a later entry for the same symbol replaces an earlier one)
SharesDict(assets) ==
    [s \in Range(SymbolList(assets)) |->
        assets[Max({i \in DOMAIN assets : assets[i].symbol = s})].shares]

\* yf.download(symbols, ...).empty: no row at all
DataEmpty(symbols, f) == \A s \in Range(symbols) : Obs(f[s]) = 0

RECURSIVE SumSeq(_)
\* the sum of floats: NaN when a term is NaN
SumSeq(s) ==
    IF s = <<>> THEN 0
    ELSE LET rest == SumSeq(Tail(s))
         IN  IF IsNum(s[1]) /\ IsNum(rest) THEN s[1] + rest ELSE NaN

RECURSIVE Dedup(_)
\* the keys of a dict filled in the order of s: each element once, in the
\* order of its first occurrence
Dedup(s) ==
    IF s = <<>> THEN <<>>
    ELSE LET front == Dedup(SubSeq(s, 1, Len(s) - 1))
             x     == s[Len(s)]
         IN  IF x \in Range(front) THEN front ELSE Append(front, x)

RECURSIVE FilterSeq(_, _)
\* [x for x in s if x in keep]
FilterSeq(s, keep) ==
    IF s = <<>> THEN <<>>
    ELSE (IF s[1] \in keep THEN <<s[1]>> ELSE <<>>) \o FilterSeq(Tail(s), keep)

(***************************************************************************)
(* Exact fractions <<numerator, denominator>> with a positive denominator,  *)
(* in lowest terms; <<0, 0>> is a float that is no finite number (NaN, or  *)
(* the infinity of a division by zero).                                    *)
(***************************************************************************)
Abs(x) == IF x < 0 THEN 0 - x ELSE x

RECURSIVE GCD(_, _)
GCD(a, b) == IF b = 0 THEN a ELSE GCD(b, a % b)

Rat(n, d) ==
    IF d = 0 THEN <<0, 0>>
    ELSE LET g == GCD(Abs(n), Abs(d))
             k == IF d < 0 THEN 0 - g ELSE g
         IN  <<n \div k, d \div k>>

RNaN == <<0, 0>>
RZero == <<0, 1>>
ROne == <<1, 1>>
RInt(n) == <<n, 1>>
RIsNum(p) == p[2] # 0

\* sums over the least common denominator
RAdd(p, q) ==
    IF RIsNum(p) /\ RIsNum(q)
    THEN LET g == GCD(p[2], q[2])
         IN  Rat(p[1] * (q[2] \div g) + q[1] * (p[2] \div g), (p[2] \div g) * q[2])
    ELSE RNaN
RSub(p, q) ==
    IF RIsNum(p) /\ RIsNum(q)
    THEN LET g == GCD(p[2], q[2])
         IN  Rat(p[1] * (q[2] \div g) - q[1] * (p[2] \div g), (p[2] \div g) * q[2])
    ELSE RNaN
RMul(p, q) == IF RIsNum(p) /\ RIsNum(q) THEN Rat(p[1] * q[1], p[2] * q[2]) ELSE RNaN
\* p / q on floats: no exception, a division by zero gives no finite number
RDiv(p, q) == IF RIsNum(p) /\ RIsNum(q) THEN Rat(p[1] * q[2], p[2] * q[1]) ELSE RNaN
\* comparisons are false when either side is NaN; the sides are compared
\* over the least common denominator
RLt(p, q) ==
    /\ RIsNum(p) /\ RIsNum(q)
    /\ LET g == GCD(p[2], q[2])
       IN  p[1] * (q[2] \div g) < q[1] * (p[2] \div g)
RLeq(p, q) ==
    /\ RIsNum(p) /\ RIsNum(q)
    /\ LET g == GCD(p[2], q[2])
       IN  p[1] * (q[2] \div g) <= q[1] * (p[2] \div g)

RECURSIVE RSum(_)
RSum(s) == IF s = <<>> THEN RZero ELSE RAdd(s[1], RSum(Tail(s)))

(***************************************************************************)
(* Returns and risk metrics.                                               *)
(***************************************************************************)
TradingDays == 252

\* a series as the tuple of its values
Series(s) == s \o <<>>

\* prices.pct_change().dropna() of a series of closes without gaps
CalculateReturns(prices) ==
    Series([t \in 1..(Len(prices) - 1) |->
        Rat(prices[t + 1] - prices[t], prices[t])])

\* mean of `zeros` returns equal to 0 followed by the returns of rest
Mean(zeros, rest) ==
    IF zeros + Len(rest) = 0 THEN RNaN
    ELSE RDiv(RSum(rest), RInt(zeros + Len(rest)))

\* Series.std() squared: the sample variance (ddof = 1), NaN under 2 values
Variance(zeros, rest) ==
    LET n     == zeros + Len(rest)
        sum   == RSum(rest)
        sumsq == RSum([t \in DOMAIN rest |-> RMul(rest[t], rest[t])])
    IN  IF n < 2 THEN RNaN
        ELSE RDiv(RSub(sumsq, RDiv(RMul(sum, sum), RInt(n))), RInt(n - 1))

\* annual_return = portfolio_returns.mean() * 252
AnnualReturn(zeros, rest) == RMul(Mean(zeros, rest), RInt(TradingDays))

\* (portfolio_returns.std() * np.sqrt(252)) squared
AnnualVolatilitySq(zeros, rest) == RMul(Variance(zeros, rest), RInt(TradingDays))

\* the guard taken as "volatility >= 0"
VolatilityNotNegative(volsq) == RLeq(RZero, volsq)

\* volatility > 0, on the square of the volatility
VolatilityPositive(volsq) == RLt(RZero, volsq)

\* A Sharpe ratio is excess / sqrt(volsq); volsq = <<0, 1>> in it is a
\* division by zero.
SharpeZero == [excess |-> RZero, volsq |-> ROne]

\* sharpe_ratio = (annual_return - RISK_FREE_RATE) / annual_volatility
\*                if annual_volatility > 0 else 0, RISK_FREE_RATE = 0.02
SharpeRatio(annual_return, volsq) ==
    IF VolatilityPositive(volsq)
    THEN [excess |-> RSub(annual_return, Rat(2, 100)), volsq |-> volsq]
    ELSE SharpeZero

RECURSIVE CumProd(_)
\* (1 + portfolio_returns).cumprod()
CumProd(r) ==
    IF r = <<>> THEN <<>>
    ELSE LET front == CumProd(SubSeq(r, 1, Len(r) - 1))
             last  == RAdd(ROne, r[Len(r)])
         IN  Append(front, IF front = <<>> THEN last
                           ELSE RMul(front[Len(front)], last))

RECURSIVE RunningMax(_)
\* cumulative_returns.expanding().max()
RunningMax(c) ==
    IF c = <<>> THEN <<>>
    ELSE LET front == RunningMax(SubSeq(c, 1, Len(c) - 1))
         IN  Append(front, IF front = <<>> THEN c[Len(c)]
                           ELSE IF RLt(front[Len(front)], c[Len(c)]) THEN c[Len(c)]
                           ELSE front[Len(front)])

RECURSIVE RMinSeq(_)
\* Series.min(): NaN for an empty series
RMinSeq(s) ==
    IF s = <<>> THEN RNaN
    ELSE IF Len(s) = 1 THEN s[1]
    ELSE LET rest == RMinSeq(Tail(s))
         IN  IF RLt(rest, s[1]) THEN rest ELSE s[1]

\* the drawdown taken as the distance to the running maximum, not divided
MaxDrawdownAbsolute(r) ==
    LET cum    == CumProd(r)
        runmax == RunningMax(cum)
    IN  RMinSeq([t \in DOMAIN cum |-> RSub(cum[t], runmax[t])])

\* drawdown = (cumulative_returns - running_max) / running_max
\* max_drawdown = drawdown.min()
MaxDrawdown(r) ==
    LET cum    == CumProd(r)
        runmax == RunningMax(cum)
    IN  RMinSeq([t \in DOMAIN cum |-> RDiv(RSub(cum[t], runmax[t]), runmax[t])])

RECURSIVE RInsert(_, _)
\* s is sorted: s with x at its place
RInsert(s, x) ==
    IF s = <<>> THEN <<x>>
    ELSE IF RLeq(x, s[1]) THEN <<x>> \o s
    ELSE <<s[1]>> \o RInsert(Tail(s), x)

RECURSIVE RSort(_)
RSort(s) == IF s = <<>> THEN <<>> ELSE RInsert(RSort(Tail(s)), s[1])

VaRPercentile == 5

\* np.percentile(series, q), linear interpolation between the two values
\* around the rank (n - 1) * q / 100; NaN for an empty series when it does
\* not raise.  The series is `zeros` returns equal to 0 and the returns of
\* rest.
Percentile(zeros, rest, q) ==
    LET n      == zeros + Len(rest)
        below  == ((n - 1) * q) \div 100
        frac   == Rat(((n - 1) * q) % 100, 100)
        sorted == RSort(rest)
        neg    == Cardinality({k \in DOMAIN sorted : RLt(sorted[k], RZero)})
        \* the j-th smallest value
        SortedAt(j) == IF j <= neg THEN sorted[j]
                       ELSE IF j <= neg + zeros THEN RZero
                       ELSE sorted[j - zeros]
        lower  == SortedAt(below + 1)
        upper  == SortedAt(IF below + 2 <= n THEN below + 2 ELSE n)
    IN  IF n = 0 THEN RNaN
        ELSE RAdd(lower, RMul(frac, RSub(upper, lower)))

(***************************************************************************)
(* The simulation of run_monte_carlo_simulation, lines 570-619.            *)
(*                                                                         *)
(* np.random is the generator of the process: every request of the         *)
(* service draws from it.  Its state is the seed it was last given and the *)
(* number of blocks of TradingDays draws taken since; seed 0 stands for    *)
(* the entropy it is seeded with when numpy is imported.  A block of       *)
(* draws of np.random.normal(mean, std, ...) is summed up by one standard  *)
(* draw z in {-1, 0, 1}: over the block the value grows by the factor      *)
(* 1 + mean + z * std.                                                     *)
(*                                                                         *)
(* std is the square root of a fraction, so a value is a pair [a, b] that  *)
(* stands for a + b * std.                                                 *)
(***************************************************************************)
GeneratorSeed == 42
InitialGenerator == [seed |-> 0, drawn |-> 0]

\* no call of np.random.seed: the generator goes on where it is
KeepGenerator(g) == g

\* np.random.seed(42), line 576
SeedGenerator(g) == [seed |-> GeneratorSeed, drawn |-> 0]

\* the standard draw of the block at position k after the seed
StandardDraw(seed, k) ==
    ((((seed + 5 * k) * (seed + 5 * k) + 5 * k) % 11) % 3) - 1

SNaN == [a |-> RNaN, b |-> RNaN]
SIsNum(x) == RIsNum(x.a) /\ RIsNum(x.b)
SRat(r) == [a |-> r, b |-> IF RIsNum(r) THEN RZero ELSE RNaN]
SAdd(x, y) == [a |-> RAdd(x.a, y.a), b |-> RAdd(x.b, y.b)]
SSub(x, y) == [a |-> RSub(x.a, y.a), b |-> RSub(x.b, y.b)]
SScale(r, x) == [a |-> RMul(r, x.a), b |-> RMul(r, x.b)]
\* the sign of a + b * std: when a and b have opposite signs, the square
\* of a / b is compared with varc
SSign(x, varc) ==
    LET RSign(r) == IF r[1] > 0 THEN 1 ELSE IF r[1] < 0 THEN 0 - 1 ELSE 0
        sa    == RSign(x.a)
        sb    == IF varc = RZero THEN 0 ELSE RSign(x.b)
        ratio == RDiv(x.a, x.b)
        sq    == RMul(ratio, ratio)
    IN  IF sb = 0 THEN sa
        ELSE IF sa = 0 \/ sa = sb THEN sb
        ELSE IF RLt(varc, sq) THEN sa
        ELSE IF RLt(sq, varc) THEN sb
        ELSE 0

\* comparisons of floats: false when either side is NaN
SLt(x, y, varc) == SIsNum(x) /\ SIsNum(y) /\ SSign(SSub(y, x), varc) > 0
SLeq(x, y, varc) == SIsNum(x) /\ SIsNum(y) /\ SSign(SSub(y, x), varc) >= 0

\* 1 + a draw of np.random.normal(mean_return, std_return): NaN when the
\* mean or the deviation is, the mean itself when the deviation is 0
Growth(mean, varc, z) ==
    IF ~RIsNum(mean) \/ ~RIsNum(varc) THEN SNaN
    ELSE [a |-> RAdd(ROne, mean), b |-> IF varc = RZero THEN RZero ELSE RInt(z)]

RECURSIVE CumulativeReturn(_, _, _, _, _)
\* np.cumprod(1 + random_returns)[-1] over `blocks` blocks from position k;
\* (a + b std)(c + d std) with std * std = varc
CumulativeReturn(mean, varc, seed, k, blocks) ==
    IF blocks = 0 THEN SRat(ROne)
    ELSE LET x == Growth(mean, varc, StandardDraw(seed, k))
             y == CumulativeReturn(mean, varc, seed, k + 1, blocks - 1)
         IN  [a |-> RAdd(RMul(x.a, y.a), RMul(RMul(x.b, y.b), varc)),
              b |-> RAdd(RMul(x.a, y.b), RMul(x.b, y.a))]

\* the loop of lines 579-586: the final values, in the order of generation
SimulatedValues(initial, mean, varc, g, simulations, years) ==
    Series([i \in 1..simulations |->
        SScale(RInt(initial),
               CumulativeReturn(mean, varc, g.seed, g.drawn + (i - 1) * years, years))])

RECURSIVE SortValues(_, _)
\* the values of a set without NaN, from the smallest
SortValues(D, varc) ==
    IF D = {} THEN <<>>
    ELSE LET least == CHOOSE x \in D : \A y \in D : SLeq(x, y, varc)
         IN  <<least>> \o SortValues(D \ {least}, varc)

\* the sorted values, each with the number of times it occurs
Tally(values, varc) ==
    LET sorted == SortValues({values[k] : k \in DOMAIN values}, varc)
    IN  Series([i \in DOMAIN sorted |->
            [value |-> sorted[i],
             count |-> Cardinality({k \in DOMAIN values : values[k] = sorted[i]})]])

RECURSIVE TallyAt(_, _)
\* the j-th smallest value
TallyAt(tally, j) ==
    IF j <= tally[1].count THEN tally[1].value
    ELSE TallyAt(Tail(tally), j - tally[1].count)

PercentileRanks == <<5, 25, 50, 75, 95>>

ChartLimit == 1000

\* the whole list of values
ChartDataAll(values) == values

\* simulations.tolist()[:1000]
ChartData(values) == SubSeq(values, 1, Min({Len(values), ChartLimit}))

NoSimulation ==
    [run |-> 0, years |-> 0, varc |-> RNaN, percentiles |-> <<>>,
     probability_of_loss |-> RNaN, expected |-> SNaN, worst |-> SNaN,
     best |-> SNaN, count |-> 0, chart |-> <<>>]

RECURSIVE TallySum(_)
TallySum(tally) ==
    IF tally = <<>> THEN SRat(RZero)
    ELSE SAdd(SScale(RInt(tally[1].count), tally[1].value), TallySum(Tail(tally)))

\* lines 588-619 for n > 0 values.  values: len(simulations); varc: the
\* square of std_return, which gives the values their order
SimulationOutcome(values, varc, initial, simulations, years) ==
    LET n     == Len(values)
        nan   == \E k \in DOMAIN values : ~SIsNum(values[k])
        tally == IF nan THEN <<>> ELSE Tally(values, varc)
        \* np.percentile(simulations, q) of n > 0 values: NaN when a value is
        TallyPercentile(q) ==
            LET below == ((n - 1) * q) \div 100
                frac  == Rat(((n - 1) * q) % 100, 100)
                lower == TallyAt(tally, below + 1)
                upper == TallyAt(tally, IF below + 2 <= n THEN below + 2 ELSE n)
            IN  SAdd(lower, SScale(frac, SSub(upper, lower)))
    IN  [run |-> simulations, years |-> years, varc |-> varc,
         percentiles |->
             [i \in DOMAIN PercentileRanks |->
                 IF nan THEN SNaN ELSE TallyPercentile(PercentileRanks[i])],
         probability_of_loss |->
             Rat(Cardinality({k \in DOMAIN values :
                                 SLt(values[k], SRat(RInt(initial)), varc)}), n),
         expected |-> IF nan THEN SNaN ELSE SScale(Rat(1, n), TallySum(tally)),
         worst |-> IF nan THEN SNaN ELSE TallyAt(tally, 1),
         best |-> IF nan THEN SNaN ELSE TallyAt(tally, n),
         count |-> n,
         chart |-> ChartData(values)]

\* the solver has not run
NoSolve == [success |-> FALSE, x |-> <<>>]

\* allocations and rebalancing_cost_estimate of a response without them
NoRebalance == [allocations |-> <<>>, cost |-> RZero]

(***************************************************************************)
(* Responses.  raised: the status of the HTTPException raised inside the   *)
(* handler (0: none).  status: the status with which the handler ends,     *)
(* 200 for a returned response.  stats: the return, volatility and Sharpe  *)
(* ratio of the current weights, optStats: those of the optimized weights. *)
(* results, fetched: the results map of calculate_portfolio_risk and the   *)
(* market data it fetched, one entry per portfolio.                        *)
(***************************************************************************)
NoWeights == [syms |-> <<>>, num |-> <<>>, den |-> 0]

NoStats == [present |-> FALSE, ret |-> RNaN, volsq |-> RNaN, sharpe |-> SharpeZero]

\* the Sharpe ratio of a return and a volatility, beside them
WithSharpe(ret, volsq) ==
    [present |-> TRUE, ret |-> ret, volsq |-> volsq, sharpe |-> SharpeRatio(ret, volsq)]

\* the metrics of a series of `zeros` returns equal to 0 followed by rest
PortfolioStats(zeros, rest) ==
    WithSharpe(AnnualReturn(zeros, rest), AnnualVolatilitySq(zeros, rest))

Weights(syms, values, total) ==
    [syms |-> syms,
     num  |-> [i \in DOMAIN syms |-> values[syms[i]]],
     den  |-> total]

Failure(kind, raisedStatus, deliveredStatus) ==
    [kind |-> kind, raised |-> raisedStatus, status |-> deliveredStatus,
     valid |-> <<>>, total |-> 0, weights |-> NoWeights,
     cap |-> 0, optimized |-> <<>>,
     stats |-> NoStats, optStats |-> NoStats, var |-> RNaN, beta |-> RNaN, mc |-> NoSimulation,
     solver |-> NoSolve, objective |-> "none", rebalance |-> NoRebalance,
     results |-> <<>>, fetched |-> <<>>]

\* except Exception as e: raise HTTPException(status_code=500, ...)
\* HTTPException is an Exception, so the handler's own 400 is caught too.
WrapException(kind, raisedStatus) == Failure(kind, raisedStatus, 500)

Success(valid, total, weights, cap, optimized) ==
    [kind |-> "ok", raised |-> 0, status |-> 200,
     valid |-> valid, total |-> total, weights |-> weights,
     cap |-> cap, optimized |-> optimized,
     stats |-> NoStats, optStats |-> NoStats, var |-> RNaN, beta |-> RNaN, mc |-> NoSimulation,
     solver |-> NoSolve, objective |-> "none", rebalance |-> NoRebalance,
     results |-> <<>>, fetched |-> <<>>]

(***************************************************************************)
(* Returns of a price frame.                                               *)
(***************************************************************************)
\* the rows of the tail kept by prices.pct_change().dropna(): every column
\* has a close on the row and on the row before it
TailReturnRows(kept, f) ==
    {t \in Rows \ {0} :
        \A s \in kept : IsNum(Cell(f[s], t - 1)) /\ IsNum(Cell(f[s], t))}

\* the number of rows of the head kept by prices.pct_change().dropna(): all
\* but the first row on which every column has a close; every return on
\* them is 0
HeadReturnRows(kept, f) ==
    LET m == Min({f[s].pre : s \in kept})
    IN  IF m > 0 THEN m - 1 ELSE 0

RECURSIVE SortSet(_)
SortSet(S) == IF S = {} THEN <<>> ELSE <<Min(S)>> \o SortSet(S \ {Min(S)})

\* pct_change at row t
SymbolReturn(h, t) == Rat(Cell(h, t) - Cell(h, t - 1), Cell(h, t - 1))

RECURSIVE RSumSkipNa(_)
\* Series.sum() and DataFrame.sum(axis=1): NaN terms are skipped
RSumSkipNa(s) ==
    IF s = <<>> THEN RZero
    ELSE IF RIsNum(s[1]) THEN RAdd(s[1], RSumSkipNa(Tail(s)))
    ELSE RSumSkipNa(Tail(s))

\* value / total_value
WeightFractions(weights) ==
    [i \in DOMAIN weights.syms |->
        IF IsNum(weights.num[i]) /\ IsNum(weights.den)
        THEN Rat(weights.num[i], weights.den) ELSE RNaN]

\* (returns * weights).sum(axis=1) on the rows of the tail
PortfolioReturns(syms, w, f) ==
    LET rows == SortSet(TailReturnRows(Range(syms), f))
    IN  Series([k \in DOMAIN rows |->
            RSumSkipNa(Series([i \in DOMAIN syms |->
                RMul(w[i], SymbolReturn(f[syms[i]], rows[k]))]))])

(***************************************************************************)
(* analyze_portfolio                                                       *)
(***************************************************************************)
\* the symbols kept with "at least" in place of "more than"
AnalyzeRetainedAtLeast(symbols, f) ==
    IF Len(symbols) = 1
    THEN {symbols[1]}
    ELSE {s \in Range(symbols) : Obs(f[s]) >= MinObsRisk}

\* prices_dict: the symbols kept, lines 166-191
AnalyzeRetained(symbols, f) ==
    IF Len(symbols) = 1
    THEN {symbols[1]}
    ELSE {s \in Range(symbols) : Obs(f[s]) > MinObsRisk}

\* portfolio_returns is empty: the frame has a single row
AnalyzeNoReturns(assets, f) ==
    /\ assets # <<>>
    /\ AnalyzeRetained(SymbolList(assets), f) # {}
    /\ HeadReturnRows(AnalyzeRetained(SymbolList(assets), f), f) = 0
    /\ TailReturnRows(AnalyzeRetained(SymbolList(assets), f), f) = {}

\* the download of the benchmark: it raises, or it returns closes on the
\* dates of the price frame
NoBenchmark == [raises |-> FALSE, hist |-> [pre |-> 0, tail |-> <<NaN, NaN>>]]
MinCommonDates == 10

\* common_dates on the tail, in order, line 232
CommonRows(valid, f, spy) ==
    SortSet(TailReturnRows(Range(valid), f) \cap
            {t \in Rows \ {0} : IsNum(Cell(spy, t - 1)) /\ IsNum(Cell(spy, t))})

\* len(common_dates): the rows of the head that both have, and CommonRows
CommonHead(valid, f, spy) ==
    Min({HeadReturnRows(Range(valid), f), IF spy.pre > 0 THEN spy.pre - 1 ELSE 0})

\* correlation * (portfolio_std / spy_std), lines 243-246, over n values of
\* which the pairs of p and s are not both 0: np.corrcoef is NaN when the
\* portfolio does not vary, and the product is cov(p, s) / var(s) otherwise
CorrelationBeta(n, p, s) ==
    LET sp  == RSum(p)
        ss  == RSum(s)
        sps == RSum([t \in DOMAIN p |-> RMul(p[t], s[t])])
        spp == RSum([t \in DOMAIN p |-> RMul(p[t], p[t])])
        sss == RSum([t \in DOMAIN s |-> RMul(s[t], s[t])])
        varp == RSub(RMul(RInt(n), spp), RMul(sp, sp))
        varb == RSub(RMul(RInt(n), sss), RMul(ss, ss))
        cov  == RSub(RMul(RInt(n), sps), RMul(sp, ss))
    IN  IF ~RLt(RZero, varb) THEN ROne
        ELSE IF varp = RZero THEN RNaN
        ELSE RDiv(cov, varb)

\* portfolio_aligned and spy_aligned on the rows of the tail, lines 233-234
PortfolioAligned(valid, weights, f, spy) ==
    LET rows    == SortSet(TailReturnRows(Range(valid), f))
        common  == CommonRows(valid, f, spy)
        returns == PortfolioReturns(valid, WeightFractions(weights), f)
    IN  Series([k \in DOMAIN common |->
            returns[CHOOSE j \in DOMAIN rows : rows[j] = common[k]]])

SpyAligned(valid, f, spy) ==
    LET common == CommonRows(valid, f, spy)
    IN  Series([k \in DOMAIN common |-> SymbolReturn(spy, common[k])])

\* the beta block without its except clause: NaN stands for the failure
AnalyzeBetaUncaught(valid, weights, f, b) ==
    LET n == CommonHead(valid, f, b.hist) + Len(CommonRows(valid, f, b.hist))
    IN  IF b.raises THEN RNaN
        ELSE IF n > MinCommonDates
             THEN CorrelationBeta(n, PortfolioAligned(valid, weights, f, b.hist),
                                  SpyAligned(valid, f, b.hist))
        ELSE ROne

\* the beta block, lines 226-253
AnalyzeBeta(valid, weights, f, b) ==
    LET n == CommonHead(valid, f, b.hist) + Len(CommonRows(valid, f, b.hist))
    IN  IF b.raises THEN ROne
        ELSE IF n > MinCommonDates
             THEN CorrelationBeta(n, PortfolioAligned(valid, weights, f, b.hist),
                                  SpyAligned(valid, f, b.hist))
        ELSE ROne

\* emptyRaises: np.percentile of an empty array raises (it depends on the
\* numpy release; older ones return NaN).  Lines 149-224: the response before
\* its beta.
\* last: prices = pd.DataFrame(prices_dict); prices.iloc[-1]: the frame's
\* index is the union of the kept series' dates, so its last row is the
\* latest date on which any kept symbol has a close.
\* stats: annualized_vol, annual_return and sharpe_ratio, lines 215-224.
\* When the total value is NaN every weight is NaN and every portfolio
\* return is 0; the head gives at least two of them.
\* var: daily_var = np.percentile(portfolio_returns, 5) * total_value
AnalyzePortfolioResult(assets, f, emptyRaises) ==
    LET symbols == SymbolList(assets)
        shares  == SharesDict(assets)
        kept    == AnalyzeRetained(symbols, f)
        valid   == FilterSeq(Dedup(symbols), kept)
        last    == Max({LastObs(f[s]) : s \in kept})
        values  == [s \in kept |-> FMul(shares[s], Cell(f[s], last))]
        total   == SumSeq([i \in DOMAIN valid |-> values[valid[i]]])
        weights == Weights(valid, values, total)
        zeros   == HeadReturnRows(Range(valid), f)
        returns == PortfolioReturns(valid, WeightFractions(weights), f)
    IN  IF assets = <<>> THEN WrapException("no_assets", 400)
        ELSE IF DataEmpty(symbols, f) THEN WrapException("no_market_data", 400)
        ELSE IF kept = {} THEN WrapException("no_valid_market_data", 400)
        ELSE IF FLeqZero(total) THEN WrapException("zero_portfolio_value", 400)
        ELSE IF AnalyzeNoReturns(assets, f) /\ emptyRaises
             THEN WrapException("internal_error", 0)
        ELSE [Success(valid, total, weights, 0, <<>>)
                 EXCEPT !.stats = PortfolioStats(zeros, returns),
                        !.var = RMul(Percentile(zeros, returns, VaRPercentile),
                                     IF IsNum(total) THEN RInt(total) ELSE RNaN)]

(***************************************************************************)
(* optimize_portfolio                                                      *)
(***************************************************************************)
ToleranceConservative == 30
ToleranceAggressive == 70
CapDefault == 100
CapConservative == 20
CapAggressive == 40
DefaultTolerance == 50

\* the caps with the limits of the tolerance classes on the wrong side
WeightCapInclusive(tol) ==
    IF tol <= ToleranceConservative THEN CapConservative
    ELSE IF tol >= ToleranceAggressive THEN CapAggressive
    ELSE CapDefault

\* bounds = (0, cap) for every asset, chosen from request.risk_tolerance
WeightCap(tol) ==
    IF tol < ToleranceConservative THEN CapConservative
    ELSE IF tol > ToleranceAggressive THEN CapAggressive
    ELSE CapDefault

RECURSIVE SumInts(_)
SumInts(s) == IF s = <<>> THEN 0 ELSE s[1] + SumInts(Tail(s))

RECURSIVE Compositions(_, _, _)
\* the vectors of n weights in fifths, each at most cap, that sum to total
Compositions(n, total, cap) ==
    IF n = 0 THEN (IF total = 0 THEN {<<>>} ELSE {})
    ELSE UNION {{<<k>> \o c : c \in Compositions(n - 1, total - k, cap)} :
                    k \in {g \in {0, 20, 40, 60, 80, 100} : g <= cap /\ g <= total}}

\* a solver that reports success at initial_guess clipped into the bounds
SolverOutcomesClipped(n, cap) ==
    {[success |-> TRUE, x |-> [i \in 1..n |-> IF 100 \div n < cap THEN 100 \div n ELSE cap]]}

\* result = minimize(objective_func, initial_guess, method='SLSQP',
\*                   bounds=bounds, constraints=constraints):
\* result.success implies that result.x meets the constraint and the bounds;
\* the solver may also fail to converge, and must when nothing is feasible.
SolverOutcomes(n, cap) ==
    LET \* the equal weights of initial_guess, the same with the first a
        \* percent down and the second a percent up, and the same with the
        \* third sold off for the fourth
        NearEqual ==
            IF n < 2 \/ 100 % n # 0 THEN {}
            ELSE LET e == 100 \div n
                 IN  {[i \in 1..n |-> e],
                      [i \in 1..n |-> IF i = 1 THEN e - 1 ELSE IF i = 2 THEN e + 1 ELSE e]}
                         \cup (IF n < 4 THEN {}
                               ELSE {[i \in 1..n |->
                                         IF i = 1 THEN e - 1 ELSE IF i = 2 THEN e + 1
                                         ELSE IF i = 3 THEN 0 ELSE IF i = 4 THEN 2 * e
                                         ELSE e]})
        \* the vectors satisfying the constraint sum(x) - 1 = 0 and the bounds
        Feasible ==
            Compositions(n, 100, cap)
                \cup {v \in NearEqual : \A i \in 1..n : v[i] <= cap}
        \* iterates the solver may stop at without converging: nothing,
        \* equal fifths, or everything in each asset
        Unconverged == {[i \in 1..n |-> k] : k \in {0, 20, 100}}
    IN  {[success |-> TRUE, x |-> v] : v \in Feasible}
            \cup {[success |-> FALSE, x |-> v] : v \in Unconverged}

\* valid symbols with "at least" in place of "more than"
OptimizeValidAtLeast(symbols, f) ==
    FilterSeq(symbols, {s \in Range(symbols) : Obs(f[s]) >= MinObsOpt})

\* valid_symbols: one entry per requested entry whose symbol has enough closes
OptimizeValid(symbols, f) ==
    FilterSeq(symbols, {s \in Range(symbols) : Obs(f[s]) > MinObsOpt})

\* the solver's vector taken whatever the solver reports
SolverAcceptedAlways(result) == TRUE

\* if not result.success: raise HTTPException(status_code=500, ...)
SolverAccepted(result) == result.success

\* result.x as fractions
OptimizedFractions(x) == [i \in DOMAIN x |-> Rat(x[i], 100)]

\* portfolio_performance(weights, expected_returns, cov_matrix) and the
\* Sharpe ratio of lines 471-472.  np.sum(returns * weights) is the
\* annualized mean of the weighted returns (NaN terms skipped) and
\* weights' cov_matrix weights is their annualized sample variance, NaN when
\* a weight is NaN.
PortfolioPerformance(syms, w, f) ==
    LET zeros == HeadReturnRows(Range(syms), f)
        r     == PortfolioReturns(syms, w, f)
    IN  WithSharpe(AnnualReturn(zeros, r),
                   IF \A i \in DOMAIN w : RIsNum(w[i])
                   THEN AnnualVolatilitySq(zeros, r) ELSE RNaN)

\* the choice with an unknown key taken as min_volatility
ObjectiveFuncNoDefault(objective) ==
    IF objective = "max_sharpe" THEN "negative_sharpe_ratio"
    ELSE IF objective = "max_return" THEN "negative_return"
    ELSE "minimize_volatility"

\* objective_func, lines 441-449
ObjectiveFunc(objective) ==
    IF objective = "max_sharpe" THEN "negative_sharpe_ratio"
    ELSE IF objective = "min_volatility" THEN "minimize_volatility"
    ELSE IF objective = "max_return" THEN "negative_return"
    ELSE "negative_sharpe_ratio"

\* a result that is no minimum of its objective
SolverResultsAny(objective_func, valid, f, cap) == SolverOutcomes(Len(valid), cap)

\* result = minimize(objective_func, ...), lines 453-460.  The volatility is
\* a convex function of the weights and the return a linear one: a result
\* with result.success is then a minimum of the objective over the vectors
\* within the bounds that sum to 1.  The Sharpe ratio is neither, and a
\* result of it may be any such vector.
SolverResults(objective_func, valid, f, cap) ==
    LET all   == SolverOutcomes(Len(valid), cap)
        found == {r \in all : r.success}
        perf  == [r \in found |->
                     PortfolioPerformance(valid, OptimizedFractions(r.x), f)]
        Value(r) == IF objective_func = "minimize_volatility" THEN perf[r].volsq
                    ELSE RSub(RZero, perf[r].ret)
    IN  IF objective_func = "negative_sharpe_ratio" THEN all
        ELSE {r \in all : r.success => \A q \in found : ~RLt(Value(q), Value(r))}

\* if abs(weight_diff) > 0.01, line 486
TradeThreshold == Rat(1, 100)

RAbs(r) == IF RIsNum(r) THEN <<Abs(r[1]), r[2]>> ELSE RNaN

\* the action with "at least 1%" in place of "more than 1%"
RecommendedActionInclusive(weight_diff) ==
    IF RLeq(TradeThreshold, RAbs(weight_diff))
    THEN (IF RLt(RZero, weight_diff) THEN "buy" ELSE "sell")
    ELSE "hold"

\* lines 486-490: no comparison holds for a NaN
RecommendedAction(weight_diff) ==
    IF RLt(TradeThreshold, RAbs(weight_diff))
    THEN (IF RLt(RZero, weight_diff) THEN "buy" ELSE "sell")
    ELSE "hold"

\* one pass of the loop of lines 478-499
Allocation(symbol, current_weight, optimized_weight, total, price) ==
    LET weight_diff    == RSub(optimized_weight, current_weight)
        value_to_trade == RMul(weight_diff, IF IsNum(total) THEN RInt(total) ELSE RNaN)
    IN  [symbol |-> symbol,
         weight_diff |-> weight_diff,
         value_to_trade |-> value_to_trade,
         shares_to_trade |-> RDiv(value_to_trade, RInt(price)),
         recommended_action |-> RecommendedAction(weight_diff)]

\* the loop of lines 474-499.  rebalancing_cost: 0.1% of the value traded by
\* the buy and sell entries, line 488
Rebalance(valid, current, optimized, total, f, last) ==
    LET allocations ==
            Series([i \in DOMAIN valid |->
                Allocation(valid[i], current[i], optimized[i], total,
                           Cell(f[valid[i]], last))])
    IN  [allocations |-> allocations,
         cost |-> RSum([i \in DOMAIN allocations |->
                     IF allocations[i].recommended_action = "hold" THEN RZero
                     ELSE RMul(RAbs(allocations[i].value_to_trade), Rat(1, 1000))])]

OptimizePortfolioResult(assets, f, tol, result) ==
    LET symbols == SymbolList(assets)
        shares  == SharesDict(assets)
        valid   == OptimizeValid(symbols, f)
        kept    == Range(valid)
        \* prices = prices[valid_symbols].dropna(); prices.iloc[-1]: the last
        \* date on which every valid symbol has a close
        last    == Min({LastObs(f[s]) : s \in kept})
        values  == [s \in kept |-> FMul(shares[s], Cell(f[s], last))]
        keys    == Dedup(valid)
        total   == SumSeq([i \in DOMAIN keys |-> values[keys[i]]])
    IN  IF assets = <<>> THEN WrapException("no_assets", 400)
        ELSE IF DataEmpty(symbols, f) THEN WrapException("no_market_data", 400)
        ELSE IF Len(valid) < 2 THEN WrapException("insufficient_assets", 400)
        ELSE IF ~SolverAccepted(result)
             THEN [WrapException("optimization_failed", 500) EXCEPT !.solver = result]
        \* a symbol named twice gives prices[valid_symbols] two columns of the
        \* same label; current_prices[symbol] is then a Series, current_weights
        \* a matrix, and portfolio_performance(current_weights, ...) raises
        ELSE IF Len(keys) # Len(valid)
             THEN [WrapException("internal_error", 0) EXCEPT !.solver = result]
        ELSE LET weights == Weights(valid, values, total)
             IN  [Success(valid, total, weights, WeightCap(tol), result.x)
                     EXCEPT !.stats = PortfolioPerformance(valid, WeightFractions(weights), f),
                            !.optStats = PortfolioPerformance(valid, OptimizedFractions(result.x), f),
                            !.solver = result,
                            !.rebalance = Rebalance(valid, WeightFractions(weights),
                                                    OptimizedFractions(result.x),
                                                    total, f, last)]

(***************************************************************************)
(* run_monte_carlo_simulation                                              *)
(***************************************************************************)
\* flat: the download of a single ticker has one level of columns, so that
\* data['Close'] is a Series (it depends on the yfinance release).
\* columns: the tickers in the order of the columns of data['Close'], which
\* is the order of the request or that of yfinance.  The response holds
\* them beside the weights, which are in the order of the request:
\* returns * weights, line 571, multiplies the k-th column by the k-th weight.
MonteCarloResult(assets, f, flat, columns) ==
    LET symbols == SymbolList(assets)
        shares  == SharesDict(assets)
        kept    == Range(symbols)
        \* prices = data['Close']; prices.iloc[-1]: the last row of the download
        last    == Max({LastObs(f[s]) : s \in Range(symbols)})
        values  == [s \in kept |-> FMul(shares[s], Cell(f[s], last))]
        keys    == Dedup(symbols)
        total   == SumSeq([i \in DOMAIN keys |-> values[keys[i]]])
    IN  IF assets = <<>> THEN WrapException("no_assets", 400)
        ELSE IF DataEmpty(symbols, f) THEN WrapException("no_market_data", 400)
        \* prices is a Series: current_prices is a scalar and
        \* current_prices[symbol] raises
        ELSE IF Len(symbols) > 1 /\ flat THEN WrapException("internal_error", 0)
        \* weights has one entry per requested entry, returns one column per
        \* downloaded ticker: returns * weights raises when they differ
        ELSE IF Len(keys) # Len(symbols)
             THEN [WrapException("internal_error", 0)
                      EXCEPT !.total = total,
                             !.weights = Weights(symbols, values, total)]
        ELSE Success(columns, total, Weights(symbols, values, total), 0, <<>>)

\* mean_return and the square of std_return, lines 571-573
MonteCarloMean(base, f) ==
    Mean(HeadReturnRows(Range(base.valid), f),
         PortfolioReturns(base.valid, WeightFractions(base.weights), f))

MonteCarloVariance(base, f) ==
    Variance(HeadReturnRows(Range(base.valid), f),
             PortfolioReturns(base.valid, WeightFractions(base.weights), f))

\* whether the request is past np.random.seed and out of the loop with a
\* value for every simulation.  range() of a count under 1 is empty, and
\* np.min of no value raises; a horizon of 0 gives no draw, and
\* cumulative_returns[-1] raises, a horizon under 0 raises in the draw
Simulates(base, simulations, years) ==
    base.status = 200 /\ simulations >= 1 /\ years >= 1

\* the response of the handler: base is the response of lines 537-571
MonteCarloResponse(base, f, simulations, years, initial, g) ==
    IF base.status # 200 THEN base
    ELSE IF ~Simulates(base, simulations, years)
         THEN [base EXCEPT !.kind = "internal_error", !.status = 500]
    ELSE [base EXCEPT !.mc =
            SimulationOutcome(
                SimulatedValues(initial, MonteCarloMean(base, f),
                                MonteCarloVariance(base, f),
                                SeedGenerator(g), simulations, years),
                MonteCarloVariance(base, f), initial, simulations, years)]

(***************************************************************************)
(* PortfolioAnalyzer of fastapi-service (FinanceAnalyzer and the            *)
(* PortfolioAnalyzer of mcp-server repeat it): get_market_data and          *)
(* calculate_portfolio_risk.  The market gives, for each symbol, what       *)
(* yf.Ticker(symbol).history() does: it raises, or it returns the daily     *)
(* closes of the window (none: an empty frame).  The windows of all         *)
(* symbols end on the same date.                                            *)
(***************************************************************************)
NoFetch == [raises |-> FALSE, close |-> <<>>]

\* the keys of market_data, in the order of their insertion.  An exception
\* of any fetch leaves the loop and the function returns {}.
GetMarketData(symbols, m) ==
    IF \E i \in DOMAIN symbols : m[symbols[i]].raises THEN <<>>
    ELSE Dedup(FilterSeq(symbols, {s \in Range(symbols) : m[s].close # <<>>}))

\* pd.DataFrame(returns_data).fillna(0): the number of rows
ReturnRows(keys, m) == Max({Len(m[keys[i]].close) : i \in DOMAIN keys}) - 1

ErrorEntry(message) ==
    [error |-> message, total |-> 0, stats |-> NoStats,
     returns |-> <<>>, var_95 |-> RNaN, max_drawdown |-> RNaN]

\* the exception that ends the call
Raised == ErrorEntry("raised")

\* the entry of one portfolio, lines 181-254
PortfolioRiskEntry(assets, m, emptyRaises) ==
    LET symbols      == [i \in DOMAIN assets |-> assets[i].symbol]
        market_data  == GetMarketData(symbols, m)
        priced       == {i \in DOMAIN assets : assets[i].symbol \in Range(market_data)}
        \* market_data[symbol]["Close"].iloc[-1]
        CurrentPrice(s) == m[s].close[Len(m[s].close)]
        value(i)     == assets[i].quantity * CurrentPrice(assets[i].symbol)
        \* total_value += value, once per asset
        total_value  == SumInts([k \in 1..Cardinality(priced) |->
                                    value(SortSet(priced)[k])])
        \* asset_values[symbol] = value: the last asset of a symbol stays
        asset_values == [s \in Range(market_data) |->
                            value(Max({i \in priced : assets[i].symbol = s}))]
        \* weights: one per asset of a fetched symbol
        weights      == [k \in 1..Cardinality(priced) |->
                            Rat(asset_values[assets[SortSet(priced)[k]].symbol],
                                total_value)]
        \* returns_data: one column per fetched symbol
        columns      == market_data
        rows         == ReturnRows(columns, m)
        \* the return of symbol s on row t of the frame, 0 before its first
        \* return
        FilledReturn(s, t) ==
            LET r      == CalculateReturns(m[s].close)
                offset == rows - Len(r)
            IN  IF t > offset THEN r[t - offset] ELSE RZero
        portfolio_returns ==
            Series([t \in 1..rows |->
                RSum(Series([k \in DOMAIN columns |->
                    RMul(weights[k], FilledReturn(columns[k], t))]))])
    IN  IF market_data = <<>> THEN ErrorEntry("No market data available")
        ELSE IF total_value = 0 THEN ErrorEntry("Cannot calculate portfolio value")
        ELSE IF columns = <<>> THEN ErrorEntry("Cannot calculate returns")
        \* returns_df * weights_array raises when their lengths differ
        ELSE IF Len(weights) # Len(columns) THEN Raised
        \* np.percentile(portfolio_returns, 5) of an empty series
        ELSE IF rows = 0 /\ emptyRaises THEN Raised
        ELSE [error        |-> "none",
              total        |-> total_value,
              stats        |-> PortfolioStats(0, portfolio_returns),
              returns      |-> portfolio_returns,
              var_95       |-> Percentile(0, portfolio_returns, VaRPercentile),
              max_drawdown |-> MaxDrawdown(portfolio_returns)]

\* calculate_portfolio_risk: results holds the entries recorded when the
\* call ends; an exception ends it with {"error": "Risk calculation error"}
\* in place of the results.
CalculatePortfolioRiskResult(portfolios, m, emptyRaises) ==
    LET entries == [i \in DOMAIN portfolios |->
                       PortfolioRiskEntry(portfolios[i], m, emptyRaises)]
        raised  == \E i \in DOMAIN entries : entries[i] = Raised
        \* the portfolios the loop reaches: up to the first whose entry raises
        reached == IF raised
                   THEN Min({i \in DOMAIN entries : entries[i] = Raised})
                   ELSE Len(entries)
        fetched == [i \in 1..reached |->
                       GetMarketData([k \in DOMAIN portfolios[i] |->
                                         portfolios[i][k].symbol], m)]
    IN  IF raised
        THEN [Failure("risk_calculation_error", 0, 0)
                 EXCEPT !.results = SubSeq(entries, 1, reached - 1),
                        !.fetched = fetched]
        ELSE [Success(<<>>, 0, NoWeights, 0, <<>>)
                 EXCEPT !.status = 0, !.results = entries, !.fetched = fetched]

(***************************************************************************)
(* The service: a request is handled, then its response is delivered.      *)
(***************************************************************************)
BlankHistory == [pre |-> 0, tail |-> <<NaN, NaN>>]

\* the download has a column per requested symbol
FramesFor(assets) ==
    LET \* a column has no gap between two closes
        Histories ==
            {h \in [pre : {0, MinObsRisk, MinObsOpt}, tail : Cells \X Cells] :
                \A i, j, k \in Rows :
                    (i < j /\ j < k /\ IsNum(Cell(h, i)) /\ IsNum(Cell(h, k)))
                        => IsNum(Cell(h, j))}
    IN  {f \in [Symbols -> Histories] :
            \A s \in Symbols \ Range(SymbolList(assets)) : f[s] = BlankHistory}

NoRequest ==
    [assets |-> <<>>, tol |-> 0, objective |-> "none", portfolios |-> <<>>,
     simulations |-> 0, time_horizon_years |-> 0, initial_investment |-> 0]
NoFrame == [s \in Symbols |-> BlankHistory]
NoMarket == [s \in Symbols |-> NoFetch]

\* the portfolios of a user: one portfolio of up to MaxAssets assets, or two
\* portfolios out of a few
SmallPortfolios ==
    {<<[symbol |-> "A", quantity |-> 1]>>,
     <<[symbol |-> "B", quantity |-> 1]>>,
     <<[symbol |-> "A", quantity |-> 0]>>,
     <<[symbol |-> "A", quantity |-> 1], [symbol |-> "A", quantity |-> 1]>>}

PortfolioData ==
    {<<p>> : p \in SeqsUpTo([symbol : Symbols, quantity : ShareSet], MaxAssets) \ {<<>>}}
        \cup (SmallPortfolios \X SmallPortfolios)

NoResponse == Failure("none", 0, 0)

\* one call of analyze_portfolio, the download of the benchmark being one
\* of benchmarks
AnalyzeCall(assets, f, benchmarks) ==
    \E emptyRaises \in IF AnalyzeNoReturns(assets, f) THEN BOOLEAN ELSE {FALSE} :
        LET base == AnalyzePortfolioResult(assets, f, emptyRaises)
        IN  \E b \in IF base.status = 200 THEN benchmarks ELSE {NoBenchmark} :
                /\ req' = [NoRequest EXCEPT !.assets = assets]
                /\ frame' = f
                /\ benchmark' = b
                \* a request that has failed before does not fetch the
                \* benchmark
                /\ resp' = IF base.status = 200
                           THEN [base EXCEPT !.beta =
                                    AnalyzeBeta(base.valid, base.weights, f, b)]
                           ELSE base

\* the download of the benchmark is empty
AnalyzePortfolio ==
    /\ pc = "idle"
    /\ \E assets \in AssetLists :
        \E f \in FramesFor(assets) : AnalyzeCall(assets, f, {NoBenchmark})
    /\ op' = "analyze"
    /\ UNCHANGED <<market, rng, earlier, service, server>>
    /\ pc' = "done"

\* one call of optimize_portfolio
OptimizeCall(assets, f, tol, objective) ==
    \* the solver runs when the call reaches it
    \E result \in IF /\ assets # <<>>
                     /\ ~DataEmpty(SymbolList(assets), f)
                     /\ Len(OptimizeValid(SymbolList(assets), f)) >= 2
                  THEN SolverResults(ObjectiveFunc(objective),
                                     OptimizeValid(SymbolList(assets), f), f,
                                     WeightCap(tol))
                  ELSE {NoSolve} :
        /\ req' = [NoRequest EXCEPT !.assets = assets, !.tol = tol,
                                    !.objective = objective]
        /\ frame' = f
        \* objective: the function handed to the solver
        /\ resp' = [OptimizePortfolioResult(assets, f, tol, result)
                       EXCEPT !.objective = IF result = NoSolve THEN "none"
                                            ELSE ObjectiveFunc(objective)]

OptimizePortfolio ==
    /\ pc = "idle"
    /\ \E assets \in AssetLists :
        \E f \in FramesFor(assets) : OptimizeCall(assets, f, DefaultTolerance, "max_sharpe")
    /\ op' = "optimize"
    /\ pc' = "done"
    /\ UNCHANGED <<market, benchmark, rng, earlier, service, server>>

\* the closes of a symbol in a simulation: none, two closes, or more than
\* MinObsRisk that end with a rise, with a fall or flat
SimulationFrames(assets) ==
    {f \in [Symbols -> {BlankHistory,
                        [pre |-> 0, tail |-> <<1, 2>>],
                        [pre |-> MinObsRisk, tail |-> <<1, 2>>],
                        [pre |-> MinObsRisk, tail |-> <<2, 1>>],
                        [pre |-> MinObsRisk, tail |-> <<1, 1>>]}] :
        \A s \in Symbols \ Range(SymbolList(assets)) : f[s] = BlankHistory}

Run(assets, f, flat, columns, simulations, years, initial) ==
    [assets |-> assets, frame |-> f, flat |-> flat, columns |-> columns,
     simulations |-> simulations, years |-> years, initial |-> initial]

MonteCarloRuns ==
    LET \* any portfolio with two simulations of a year; the columns of the
        \* download are in the order of the request or, as yfinance sorts
        \* them, in the order of the alphabet
        Alphabet == <<"A", "B">>
        \* whether the release of yfinance decides the shape of the download
        OneTicker(assets) ==
            Len(assets) > 1 /\ Cardinality(Range(SymbolList(assets))) = 1
        PortfolioRuns ==
            UNION {{Run(assets, f, flat, columns, 2, 1, 1) :
                        f \in SimulationFrames(assets),
                        flat \in IF OneTicker(assets) THEN BOOLEAN ELSE {FALSE},
                        columns \in {SymbolList(assets),
                                     SelectSeq(Alphabet,
                                         LAMBDA s : s \in Range(SymbolList(assets)))}} :
                   assets \in AssetLists}
        \* one share of A with any small count of simulations and horizon
        HorizonRuns ==
            {Run(<<[symbol |-> "A", shares |-> 1]>>, f, FALSE, <<"A">>, n, y, i) :
                f \in SimulationFrames(<<[symbol |-> "A", shares |-> 1]>>) \ {NoFrame},
                n \in 0..3, y \in 0..2, i \in {1, 2}}
        \* one share of A with about ChartLimit simulations
        ChartRuns ==
            {Run(<<[symbol |-> "A", shares |-> 1]>>,
                 [NoFrame EXCEPT !["A"] = [pre |-> MinObsRisk, tail |-> <<2, 1>>]],
                 FALSE, <<"A">>, n, 1, 1) : n \in {ChartLimit - 1, ChartLimit, ChartLimit + 1}}
    IN  PortfolioRuns \cup HorizonRuns \cup ChartRuns

\* one call of run_monte_carlo_simulation
MonteCarloCall(r) ==
    LET base == MonteCarloResult(r.assets, r.frame, r.flat, r.columns)
    IN  /\ req' = [NoRequest EXCEPT !.assets = r.assets,
                                    !.simulations = r.simulations,
                                    !.time_horizon_years = r.years,
                                    !.initial_investment = r.initial]
        /\ frame' = r.frame
        /\ resp' = MonteCarloResponse(base, r.frame, r.simulations, r.years,
                                      r.initial, rng)
        \* the generator as the handler leaves it
        /\ rng' = IF base.status # 200 THEN rng
                  ELSE IF ~Simulates(base, r.simulations, r.years)
                       THEN SeedGenerator(rng)
                  ELSE [SeedGenerator(rng) EXCEPT
                           !.drawn = @ + r.simulations * r.years]

RunMonteCarloSimulation ==
    /\ pc = "idle"
    /\ \E r \in MonteCarloRuns : MonteCarloCall(r)
    /\ op' = "montecarlo"
    /\ pc' = "done"
    /\ UNCHANGED <<market, benchmark, earlier, service, server>>

NoEarlier == NoSimulation

\* the client sends the request it has the response of once more, and the
\* market has not moved; earlier keeps the outcome of the first call
RepeatMonteCarloSimulation ==
    /\ pc = "done"
    /\ op = "montecarlo"
    /\ resp.status = 200
    /\ earlier = NoEarlier
    /\ earlier' = resp.mc
    /\ MonteCarloCall(Run(req.assets, frame, FALSE, resp.valid, req.simulations,
                          req.time_horizon_years, req.initial_investment))
    /\ UNCHANGED <<pc, op, market, benchmark, service, server>>

CalculatePortfolioRisk ==
    /\ pc = "idle"
    /\ \E portfolios \in PortfolioData :
        \* a fetch raises or returns up to MaxCloses closes; only the
        \* symbols held are fetched
        \E m \in LET Fetches == {[raises |-> FALSE, close |-> c] :
                                    c \in SeqsUpTo(PriceSet, MaxCloses)}
                                    \cup {[raises |-> TRUE, close |-> <<>>]}
                     held    == UNION {Range(SymbolList(portfolios[i])) :
                                          i \in DOMAIN portfolios}
                 IN  {m \in [Symbols -> Fetches] :
                         \A s \in Symbols \ held : m[s] = NoFetch} :
            \* whether some portfolio has market data of a single row
            \E emptyRaises \in
                    IF \E i \in DOMAIN portfolios :
                          LET keys == GetMarketData(
                                          [k \in DOMAIN portfolios[i] |->
                                              portfolios[i][k].symbol], m)
                          IN  keys # <<>> /\ ReturnRows(keys, m) = 0
                    THEN BOOLEAN ELSE {FALSE} :
                /\ req' = [NoRequest EXCEPT !.portfolios = portfolios]
                /\ market' = m
                /\ resp' = CalculatePortfolioRiskResult(portfolios, m, emptyRaises)
    /\ op' = "risk"
    /\ pc' = "done"
    /\ UNCHANGED <<frame, benchmark, rng, earlier, service, server>>

\* the response has been delivered; the service keeps nothing of the request
Respond ==
    /\ pc = "done"
    /\ pc' = "idle"
    /\ op' = "none"
    /\ req' = NoRequest
    /\ frame' = NoFrame
    /\ market' = NoMarket
    /\ benchmark' = NoBenchmark
    /\ resp' = NoResponse
    /\ earlier' = NoEarlier
    /\ UNCHANGED <<rng, service, server>>

\* src/fastapi-service/main.py before it is imported: DATABASE_URL and
\* engine (lines 52-53) are not bound yet; startup is the outcome of the
\* startup event, health and portfolio the last answers of GET /health and
\* of get_user_portfolio
NotLoaded ==
    [loaded |-> FALSE, DATABASE_URL |-> FALSE, reachable |-> FALSE, users |-> {},
     engine |-> "None", startup |-> "pending", health |-> "none",
     portfolio |-> "none"]

\* GenericMCPServer.__init__: self.tools = {}, self.resources = {},
\* self.analyzers = {}.  methods holds, for every call of register_analyzer,
\* the local variable `method` of _register_analyzer_tools and that of
\* _register_analyzer_resources, which the wrappers made in the call share.
NoServer ==
    [analyzers |-> <<>>, tools |-> <<>>, resources |-> <<>>, methods |-> <<>>,
     called |-> [key |-> <<>>, kind |-> "none", instance |-> 0, attr |-> <<>>]]

Init ==
    /\ service = NotLoaded
    /\ server = NoServer
    /\ pc = "idle"
    /\ op = "none"
    /\ req = NoRequest
    /\ frame = NoFrame
    /\ market = NoMarket
    /\ benchmark = NoBenchmark
    /\ resp = NoResponse
    /\ rng = InitialGenerator
    /\ earlier = NoEarlier

Next ==
    \/ AnalyzePortfolio
    \/ OptimizePortfolio
    \/ CalculatePortfolioRisk
    \/ Respond

Spec == Init /\ [][Next]_vars

(***************************************************************************)
(* The Monte Carlo projector: the requests of the service that draw from   *)
(* the generator of the process, one after the other.  The handler has no  *)
(* await, so the event loop runs each call from its seed to its last draw  *)
(* before it takes up the next request.                                    *)
(***************************************************************************)
MCNext ==
    \/ RunMonteCarloSimulation
    \/ RepeatMonteCarloSimulation
    \/ Respond

SpecMC == Init /\ [][MCNext]_vars

(***************************************************************************)
(* The analysis against the benchmark: the download of SPY raises, is      *)
(* empty, or holds closes on the dates of the price frame.  The request    *)
(* names each of its symbols once.                                         *)
(***************************************************************************)
AnalyzeAgainstBenchmark ==
    /\ pc = "idle"
    /\ \E assets \in {a \in AssetLists : Dedup(SymbolList(a)) = SymbolList(a)} :
        \E f \in FramesFor(assets) :
            \* a benchmark has a head of MinCommonDates closes and then rises
            \* and falls, rises or stays flat, or a head of one close less
            \* and then rises
            AnalyzeCall(assets, f,
                {[raises |-> TRUE, hist |-> NoBenchmark.hist], NoBenchmark}
                    \cup {[raises |-> FALSE, hist |-> h] :
                             h \in [pre : {MinCommonDates},
                                    tail : {<<2, 1>>, <<2, NaN>>, <<1, 1>>}]
                                   \cup {[pre |-> MinCommonDates - 1,
                                          tail |-> <<2, NaN>>]}})
    /\ op' = "analyze"
    /\ UNCHANGED <<market, rng, earlier, service, server>>
    /\ pc' = "done"

BetaNext ==
    \/ AnalyzeAgainstBenchmark
    \/ Respond

SpecBeta == Init /\ [][BetaNext]_vars

(***************************************************************************)
(* The optimizer over larger portfolios and every class of risk tolerance: *)
(* the request names the first n symbols of OptSymbolSeq once each, and    *)
(* each has either enough closes or exactly MinObsOpt of them.             *)
(***************************************************************************)
MaxOptAssets == 5

OptSymbolSeq == <<"A", "B", "C", "D", "E", "F", "G">>

OptimizeLargePortfolio ==
    /\ pc = "idle"
    /\ \E n \in 1..MaxOptAssets,
          tol \in {0, 10, 29, 30, 31, 50, 69, 70, 71, 90, 100} :
        \E f \in LET LongHistory  == [pre |-> MinObsOpt, tail |-> <<1, 2>>]
                     ShortHistory == [pre |-> MinObsOpt, tail |-> <<NaN, NaN>>]
                 IN  {f \in [{OptSymbolSeq[i] : i \in 1..MaxOptAssets}
                                 -> {LongHistory, ShortHistory, BlankHistory}] :
                         \A i \in 1..MaxOptAssets :
                             (f[OptSymbolSeq[i]] = BlankHistory) <=> (i > n)} :
            OptimizeCall([i \in 1..n |-> [symbol |-> OptSymbolSeq[i], shares |-> 1]],
                         f, tol, "max_sharpe")
    /\ op' = "optimize"
    /\ pc' = "done"
    /\ UNCHANGED <<market, benchmark, rng, earlier, service, server>>

OptNext ==
    \/ OptimizeLargePortfolio
    \/ Respond

SpecOpt == Init /\ [][OptNext]_vars

(***************************************************************************)
(* The optimizer under each objective: the request holds up to two shares  *)
(* of A and of B, whose closes are flat, rise on the last date or rise on  *)
(* the date before it (the minimum of the volatility is then at equal      *)
(* weights or at weights that are fifths).                                 *)
(***************************************************************************)
OptimizeWithObjective ==
    /\ pc = "idle"
    /\ \E sa, sb \in {0, 1, 2},
          objective \in {"max_sharpe", "min_volatility", "max_return",
                         "", "MAX_SHARPE", "min_vol"},
          tol \in {20, DefaultTolerance, 80} :
        \E f \in [Symbols -> {[pre |-> MinObsOpt, tail |-> t] :
                                t \in {<<1, 1>>, <<1, 2>>, <<2, 2>>}}] :
            OptimizeCall(<<[symbol |-> "A", shares |-> sa],
                           [symbol |-> "B", shares |-> sb]>>, f, tol, objective)
    /\ op' = "optimize"
    /\ pc' = "done"
    /\ UNCHANGED <<market, benchmark, rng, earlier, service, server>>

ObjNext ==
    \/ OptimizeWithObjective
    \/ Respond

SpecObj == Init /\ [][ObjNext]_vars

(***************************************************************************)
(* The database service, src/fastapi-service/main.py.                      *)
(***************************************************************************)
\* import of the module: DATABASE_URL = os.getenv("DATABASE_URL") and
\* engine = None.  The environment, whether the database answers, and the
\* users that have portfolios in it are inputs.
LoadModule ==
    /\ ~service.loaded
    /\ \E url \in BOOLEAN, reachable \in BOOLEAN, users \in SUBSET {"u1", "u2"} :
          service' = [NotLoaded EXCEPT !.loaded = TRUE, !.DATABASE_URL = url,
                                      !.reachable = reachable, !.users = users]
    /\ UNCHANGED <<pc, op, req, frame, market, benchmark, resp, rng, earlier, server>>

\* get_engine(): the engine, made on the first call; raised when
\* DATABASE_URL is not set.  create_engine opens no connection.
get_engine(s) ==
    IF s.engine # "None" THEN [engine |-> s.engine, raised |-> FALSE]
    ELSE IF ~s.DATABASE_URL THEN [engine |-> "None", raised |-> TRUE]
    ELSE [engine |-> "Engine", raised |-> FALSE]

\* with engine.connect() as conn: conn.execute(text("SELECT 1")), on the
\* module global engine as it is: None has no attribute connect
TestConnection(s) ==
    IF s.engine = "None" THEN "AttributeError"
    ELSE IF s.reachable THEN "ok"
    ELSE "OperationalError"

\* startup_event: the exception of a failed test is raised again and the
\* application does not start.  A server without lifespan events serves
\* requests without having run it.
StartupEvent ==
    /\ service.loaded
    /\ service.startup = "pending"
    /\ service' = [service EXCEPT !.startup =
                       IF TestConnection(service) = "ok" THEN "complete"
                       ELSE "failed"]
    /\ UNCHANGED <<pc, op, req, frame, market, benchmark, resp, rng, earlier, server>>

\* GET /health: 'connected', or 503 with the exception as detail
health_check ==
    /\ service.loaded
    /\ service.startup # "failed"
    /\ service' = [service EXCEPT !.health =
                       IF TestConnection(service) = "ok" THEN "connected"
                       ELSE TestConnection(service)]
    /\ UNCHANGED <<pc, op, req, frame, market, benchmark, resp, rng, earlier, server>>

\* PortfolioAnalyzer.get_user_portfolio(user_id), called by the three
\* portfolio endpoints: the only caller of get_engine()
get_user_portfolio ==
    /\ service.loaded
    /\ service.startup # "failed"
    /\ \E user_id \in {"u1", "u2"} :
          LET got == get_engine(service)
          IN  service' = [service EXCEPT
                  !.engine = got.engine,
                  !.portfolio =
                      IF got.raised \/ ~service.reachable THEN "database_error"
                      ELSE IF user_id \in service.users THEN "portfolios"
                      ELSE "no_portfolio_data"]
    /\ UNCHANGED <<pc, op, req, frame, market, benchmark, resp, rng, earlier, server>>

ServiceNext ==
    \/ LoadModule
    \/ StartupEvent
    \/ health_check
    \/ get_user_portfolio

SpecService == Init /\ [][ServiceNext]_vars

(***************************************************************************)
(* The tool server, src/mcp-server/generic_mcp_server.py.  An attribute    *)
(* name is <<prefix, rest>>, the key f"{analyzer_name}_{attr_name}" is     *)
(* <<analyzer_name, attr_name>>, and a wrapper is the closure              *)
(* [frame |-> k]: it reads `method` in the frame of the k-th registration  *)
(* when it is called.                                                      *)
(***************************************************************************)
\* the body of `for attr_name in dir(analyzer)` for the attributes that pass
\* the test, in turn: method = getattr(analyzer, attr_name), then the
\* wrapper is made and stored under its key
RECURSIVE RegisterLoop(_, _, _, _)
RegisterLoop(attrs, analyzer_name, k, st) ==
    IF attrs = <<>> THEN st
    ELSE LET key == <<analyzer_name, Head(attrs)>>
         IN  RegisterLoop(Tail(attrs), analyzer_name, k,
                 [method |-> Head(attrs),
                  registry |-> [x \in DOMAIN st.registry \cup {key} |->
                                   IF x = key THEN [frame |-> k]
                                   ELSE st.registry[x]]])

\* register_analyzer(name, analyzer_class) with _register_analyzer_tools and
\* _register_analyzer_resources.  dir() lists the attributes in sorted
\* order.  strict: the release of FastMCP rejects a resource function whose
\* parameters (*args, **kwargs) are not those of the pattern; the exception
\* of the first resource ends the registration and is logged.
register_analyzer ==
    /\ Len(server.methods) < MaxRegistrations
    /\ \E name \in {"finance", "risk"}, strict \in BOOLEAN,
          class \in SUBSET {<<"resource_", "x">>, <<"resource_", "y">>,
                            <<"tool_", "a">>, <<"tool_", "b">>} :
          LET dir == <<<<"", "analyze">>, <<"resource_", "x">>,
                       <<"resource_", "y">>, <<"tool_", "a">>, <<"tool_", "b">>>>
              k == Len(server.methods) + 1
              startswith(prefix) ==
                  SelectSeq(dir, LAMBDA a : (a \in class \/ a[1] = "") /\ a[1] = prefix)
              none == [method |-> <<>>, registry |-> <<>>]
              tools == RegisterLoop(startswith("tool_"), name, k,
                                    [none EXCEPT !.registry = server.tools])
              resources ==
                  IF strict /\ startswith("resource_") # <<>>
                  THEN [method |-> Head(startswith("resource_")),
                        registry |-> server.resources]
                  ELSE RegisterLoop(startswith("resource_"), name, k,
                                    [none EXCEPT !.registry = server.resources])
          IN  server' = [server EXCEPT
                  !.analyzers = [n \in DOMAIN server.analyzers \cup {name} |->
                                    IF n = name THEN k ELSE server.analyzers[n]],
                  !.tools = tools.registry,
                  !.resources = resources.registry,
                  !.methods = Append(server.methods,
                                  [tool |-> tools.method,
                                   resource |-> resources.method])]
    /\ UNCHANGED <<pc, op, req, frame, market, benchmark, resp, rng, earlier, service>>

\* a call of a stored wrapper: return method(*args, **kwargs), with the
\* `method` of the frame the wrapper was made in
tool_wrapper ==
    /\ \E kind \in {"tool", "resource"} :
          LET registry == IF kind = "tool" THEN server.tools ELSE server.resources
          IN  \E key \in DOMAIN registry :
                  server' = [server EXCEPT !.called =
                      [key |-> key, kind |-> kind,
                       instance |-> registry[key].frame,
                       attr |-> server.methods[registry[key].frame][kind]]]
    /\ UNCHANGED <<pc, op, req, frame, market, benchmark, resp, rng, earlier, service>>

ServerNext ==
    \/ register_analyzer
    \/ tool_wrapper

SpecServer == Init /\ [][ServerNext]_vars

(***************************************************************************)
(* Properties of the portfolio service.                                    *)
(***************************************************************************)
Handled == pc = "done"

\* the request entries whose symbol has more than `threshold` closes
EntriesAbove(threshold) ==
    {i \in DOMAIN req.assets : Obs(frame[req.assets[i].symbol]) > threshold}

SymbolsAbove(threshold) == {req.assets[i].symbol : i \in EntriesAbove(threshold)}

\* C1: every weight vector computed from holdings with a total value > 0
\* sums to 1 (the numerators sum to the total value), and the optimized
\* weights of a successful optimize_portfolio call sum to 1.
C1_WeightsSumToOne ==
    /\ (Handled /\ resp.weights.syms # <<>> /\ IsNum(resp.total) /\ resp.total > 0)
          => SumSeq(resp.weights.num) = resp.weights.den
    /\ (Handled /\ op = "optimize" /\ resp.status = 200)
          => SumInts(resp.optimized) = 100

\* C3 as stated: a request (naming at least one asset) with fewer than 2
\* entries with more than 50 closes always gives the insufficient-assets
\* error and no result.
C3_AlwaysInsufficientAssets ==
    (Handled /\ op = "optimize" /\ req.assets # <<>>
        /\ Cardinality(EntriesAbove(MinObsOpt)) < 2)
        => (resp.kind = "insufficient_assets" /\ resp.status # 200
            /\ resp.optimized = <<>>)

\* C3 amended: with fewer than 2 requested entries with more than 50 closes
\* optimize_portfolio returns no result; the error is the insufficient-assets
\* error when the request names an asset and the download is not empty (an
\* empty request and an empty download fail before, with their own error);
\* and a request with one valid symbol only never returns a result.
C3_InsufficientAssets ==
    /\ (Handled /\ op = "optimize" /\ Cardinality(EntriesAbove(MinObsOpt)) < 2)
          => (resp.status # 200 /\ resp.optimized = <<>>
              /\ resp.kind \in {"no_assets", "no_market_data", "insufficient_assets"}
              /\ ((req.assets # <<>> /\ ~DataEmpty(SymbolList(req.assets), frame))
                    => resp.kind = "insufficient_assets"))
    /\ (Handled /\ op = "optimize" /\ Cardinality(SymbolsAbove(MinObsOpt)) = 1)
          => (resp.status # 200 /\ resp.optimized = <<>>)

\* one requested symbol has 51 closes, the other 50: the error is raised
C3_Witness ==
    /\ Handled /\ op = "optimize"
    /\ Cardinality(SymbolsAbove(MinObsOpt)) = 1
    /\ Len(req.assets) = 2
    /\ \E i \in DOMAIN req.assets : Obs(frame[req.assets[i].symbol]) = MinObsOpt
    /\ resp.kind = "insufficient_assets"

\* C4: an error raised with status 400 reaches the caller with a status
\* other than the 500 of a failed computation.
C4_BadInputDistinct ==
    (Handled /\ resp.raised = 400) => resp.status # 500

\* C5: no handler returns a result computed from a total value <= 0.
C5_ZeroValueFails ==
    (Handled /\ op \in {"analyze", "optimize", "montecarlo"} /\ resp.status = 200)
        => ~FLeqZero(resp.total)

\* the observation threshold of each handler
MinObs(o) == IF o = "analyze" THEN MinObsRisk ELSE MinObsOpt

\* C8: every symbol that contributes to the weights of a result has more
\* closes than the handler's threshold.
C8_RetainedAboveThreshold ==
    (Handled /\ op \in {"analyze", "optimize", "montecarlo"} /\ resp.status = 200)
        => \A i \in DOMAIN resp.valid : Obs(frame[resp.valid[i]]) > MinObs(op)

\* C2: the cap on every weight is 0.20 below tolerance 0.3, 0.40 above 0.7
\* and 1.0 otherwise (0.3 and 0.7 included), and every optimized weight of a
\* successful result lies in [0, cap].
C2_WeightBounds ==
    (Handled /\ op = "optimize" /\ resp.status = 200)
        => /\ (req.tol < 30) => resp.cap = 20
           /\ (req.tol > 70) => resp.cap = 40
           /\ (req.tol >= 30 /\ req.tol <= 70) => resp.cap = 100
           /\ \A i \in DOMAIN resp.optimized :
                 resp.optimized[i] >= 0 /\ resp.optimized[i] <= resp.cap

\* tolerance 0.1 with five valid symbols: every weight is at the cap 0.20
C2_Witness ==
    /\ Handled /\ op = "optimize" /\ resp.status = 200
    /\ req.tol = 10
    /\ Len(resp.optimized) = 5
    /\ \A i \in DOMAIN resp.optimized : resp.optimized[i] = 20

\* the symbols held in portfolio i of the request
PortfolioSymbols(i) == Range(SymbolList(req.portfolios[i]))

\* C6: when no requested symbol yields usable price history the analysis
\* fails with a no-market-data error and gives no metrics.  analyze_portfolio
\* raises when the download is empty and when no symbol of several has more
\* than 10 closes; calculate_portfolio_risk records "No market data
\* available" for a portfolio none of whose symbols has a close.
C6_NoMarketData ==
    /\ (Handled /\ op = "analyze" /\ req.assets # <<>>
          /\ (\/ DataEmpty(SymbolList(req.assets), frame)
              \/ (Len(req.assets) > 1 /\ EntriesAbove(MinObsRisk) = {})))
          => /\ resp.kind \in {"no_market_data", "no_valid_market_data"}
             /\ resp.raised = 400
             /\ resp.status # 200
             /\ resp.weights = NoWeights
             /\ ~resp.stats.present
    /\ (Handled /\ op = "risk")
          => \A i \in DOMAIN resp.fetched :
                (\A s \in PortfolioSymbols(i) : market[s].close = <<>>)
                   => /\ i \in DOMAIN resp.results
                      /\ resp.results[i].error = "No market data available"
                      /\ ~resp.results[i].stats.present

\* two symbols with exactly 10 closes each: the download is not empty and
\* no symbol is kept
C6_Witness ==
    /\ Handled /\ op = "analyze"
    /\ Len(req.assets) = 2
    /\ req.assets[1].symbol # req.assets[2].symbol
    /\ \A i \in DOMAIN req.assets : Obs(frame[req.assets[i].symbol]) = MinObsRisk
    /\ resp.kind = "no_valid_market_data"

\* C7: a symbol whose fetch or processing fails never costs the data of the
\* other symbols.  analyze_portfolio keeps every symbol of several that has
\* more than 10 closes; get_market_data keeps every symbol whose history is
\* not empty, whatever the other fetches do.
C7_FailureKeepsOthers ==
    /\ (Handled /\ op = "analyze" /\ Len(req.assets) > 1
          /\ EntriesAbove(MinObsRisk) # {})
          => /\ resp.kind # "no_valid_market_data"
             /\ (resp.status = 200 => SymbolsAbove(MinObsRisk) \subseteq Range(resp.valid))
    /\ (Handled /\ op = "risk")
          => \A i \in DOMAIN resp.fetched :
                \A s \in PortfolioSymbols(i) :
                    market[s].close # <<>> => s \in Range(resp.fetched[i])

\* a Sharpe ratio that is exactly 0 when the volatility is, computed without
\* dividing by 0
SharpeGuarded(stats) ==
    stats.present
        => /\ (stats.volsq = RZero => stats.sharpe = SharpeZero)
           /\ stats.sharpe.volsq # RZero

\* C9: every Sharpe ratio reported (analyze_portfolio, the current and the
\* optimized one of optimize_portfolio, calculate_portfolio_risk) is exactly
\* 0 when the annualized volatility is exactly 0, and is never the result of
\* a division by zero.
C9_SharpeZeroVolatility ==
    Handled
        => /\ SharpeGuarded(resp.stats)
           /\ SharpeGuarded(resp.optStats)
           /\ \A i \in DOMAIN resp.results : SharpeGuarded(resp.results[i].stats)

\* a portfolio whose return is the same 0.5 on both days: no volatility, an
\* excess return other than 0, and a Sharpe ratio of 0
C9_Witness ==
    /\ Handled /\ op = "risk"
    /\ \E i \in DOMAIN resp.results :
          /\ resp.results[i].stats.present
          /\ resp.results[i].stats.volsq = RZero
          /\ resp.results[i].stats.ret # RZero
          /\ resp.results[i].stats.sharpe = SharpeZero

RECURSIVE Compounded(_, _)
\* the compounded return of the first t returns
Compounded(r, t) ==
    IF t = 0 THEN ROne ELSE RMul(Compounded(r, t - 1), RAdd(ROne, r[t]))

\* the highest compounded return among the dates up to t
Peak(r, t) ==
    CHOOSE p \in {Compounded(r, u) : u \in 1..t} :
        \A u \in 1..t : RLeq(Compounded(r, u), p)

DrawdownAt(r, t) == RSub(RDiv(Compounded(r, t), Peak(r, t)), ROne)

\* C10: for a return series of at least one observation the max drawdown of
\* calculate_portfolio_risk is the least, over the dates, of the compounded
\* return divided by its running maximum, minus 1; it is <= 0 and >= -1.
C10_MaxDrawdownRange ==
    (Handled /\ op = "risk")
        => \A i \in DOMAIN resp.results :
              (resp.results[i].error = "none" /\ resp.results[i].returns # <<>>)
                 => LET r   == resp.results[i].returns
                        mdd == resp.results[i].max_drawdown
                    IN  /\ RLeq(mdd, RZero)
                        /\ RLeq(Rat(0 - 1, 1), mdd)
                        /\ \E t \in DOMAIN r : mdd = DrawdownAt(r, t)
                        /\ \A t \in DOMAIN r : RLeq(mdd, DrawdownAt(r, t))

\* a rise followed by a fall of one half
C10_Witness ==
    /\ Handled /\ op = "risk"
    /\ \E i \in DOMAIN resp.results :
          /\ resp.results[i].error = "none"
          /\ Len(resp.results[i].returns) = 2
          /\ resp.results[i].max_drawdown = Rat(0 - 1, 2)

\* the closes fall by one half from their highest value to a later close,
\* and no lower
HalvedFromPeak(c) ==
    /\ \E a, b \in DOMAIN c :
          a < b /\ c[a] = Max(Range(c)) /\ 2 * c[b] = c[a]
    /\ \A b \in DOMAIN c : 2 * c[b] >= Max(Range(c))

\* C11: for a portfolio of a single symbol whose close falls by 50% from
\* its highest close of the window to a later close, the max drawdown
\* reported by calculate_portfolio_risk is -0.50, wherever the highest close
\* is in the window, the first observation included.
C11_HalfDrawdown ==
    (Handled /\ op = "risk")
        => \A i \in DOMAIN resp.results :
              (/\ resp.results[i].error = "none"
               /\ Len(req.portfolios[i]) = 1
               /\ HalvedFromPeak(market[req.portfolios[i][1].symbol].close))
                 => resp.results[i].max_drawdown = Rat(0 - 1, 2)

\* every close of the history is the same
FlatCloses(c) == c # <<>> /\ \A a, b \in DOMAIN c : c[a] = c[b]

\* every close of the frame's history is the same
FlatHistory(h) ==
    \A i, j \in Rows : (IsNum(Cell(h, i)) /\ IsNum(Cell(h, j))) => Cell(h, i) = Cell(h, j)

\* C12: for a portfolio of two symbols with positive quantities whose
\* closes are constant over a window of at least two closes (every return
\* is 0), calculate_portfolio_risk gives an
\* annualized volatility of 0, a Sharpe ratio of 0, a VaR of 0 and a max
\* drawdown of 0, and analyze_portfolio a volatility, Sharpe ratio and VaR
\* of 0.
C12_FlatPrices ==
    /\ (Handled /\ op = "risk")
          => \A i \in DOMAIN resp.results :
                (/\ resp.results[i].error # "No market data available"
                 /\ Len(req.portfolios[i]) = 2
                 /\ req.portfolios[i][1].symbol # req.portfolios[i][2].symbol
                 /\ \A k \in {1, 2} :
                       /\ req.portfolios[i][k].quantity > 0
                       /\ Len(market[req.portfolios[i][k].symbol].close) >= 2
                       /\ FlatCloses(market[req.portfolios[i][k].symbol].close))
                   => /\ resp.results[i].error = "none"
                      /\ resp.results[i].stats.volsq = RZero
                      /\ resp.results[i].stats.sharpe = SharpeZero
                      /\ resp.results[i].var_95 = RZero
                      /\ resp.results[i].max_drawdown = RZero
    /\ (Handled /\ op = "analyze" /\ resp.status = 200
          /\ Len(req.assets) = 2
          /\ req.assets[1].symbol # req.assets[2].symbol
          /\ \A k \in {1, 2} :
                /\ req.assets[k].shares > 0
                /\ Obs(frame[req.assets[k].symbol]) > MinObsRisk
                /\ LastObs(frame[req.assets[k].symbol]) = 2
                /\ FlatHistory(frame[req.assets[k].symbol]))
          => /\ resp.stats.volsq = RZero
             /\ resp.stats.sharpe = SharpeZero
             /\ resp.var = RZero

\* len(common_dates) of a successful analysis
CommonDates ==
    CommonHead(resp.valid, frame, benchmark.hist)
        + Len(CommonRows(resp.valid, frame, benchmark.hist))

\* correlation x stdev(portfolio) / stdev(benchmark) over the common dates
FormulaBeta ==
    CorrelationBeta(CommonDates,
                    PortfolioAligned(resp.valid, resp.weights, frame, benchmark.hist),
                    SpyAligned(resp.valid, frame, benchmark.hist))

BenchmarkVaries ==
    \E k \in DOMAIN SpyAligned(resp.valid, frame, benchmark.hist) :
        SpyAligned(resp.valid, frame, benchmark.hist)[k] # RZero

\* C13: in analyze_portfolio beta is exactly 1.0 whenever the portfolio and
\* the benchmark share fewer than 10 dates and whenever the fetch of the
\* benchmark raises, and neither makes the request fail: an analysis that
\* has fetched the benchmark answers with its metrics.
C13_BetaDefault ==
    (Handled /\ op = "analyze")
        => /\ (benchmark.raises \/ benchmark.hist.pre > 0) => resp.status = 200
           /\ (resp.status = 200 /\ (benchmark.raises \/ CommonDates < 10))
                  => resp.beta = ROne

\* 9 common dates on which the formula would
\* not give 1.0
C13_Witness ==
    /\ Handled /\ op = "analyze" /\ resp.status = 200
    /\ ~benchmark.raises
    /\ CommonDates = 9
    /\ FormulaBeta # ROne
    /\ resp.beta = ROne

\* C14: beta is correlation x stdev(portfolio) / stdev(benchmark) over the
\* common dates whenever there are at least 10 of them and the benchmark
\* varies; the default 1.0 is for fewer than 10.
C14_BetaFormula ==
    (/\ Handled /\ op = "analyze" /\ resp.status = 200
     /\ ~benchmark.raises
     /\ CommonDates >= 10
     /\ BenchmarkVaries)
        => resp.beta = FormulaBeta

\* a response of run_monte_carlo_simulation
Simulated == Handled /\ op = "montecarlo" /\ resp.status = 200

Ordered(p, varc) == \A i \in 1..(Len(p) - 1) : SLeq(p[i], p[i + 1], varc)

\* the fraction of the listed values under the initial investment
LossFraction ==
    Rat(Cardinality({k \in DOMAIN resp.mc.chart :
            SLt(resp.mc.chart[k], SRat(RInt(req.initial_investment)), resp.mc.varc)}),
        Len(resp.mc.chart))

\* C15: for a request with at least one simulation and a horizon of at
\* least one year the percentile outcomes are in order, 5th <= 25th <= 50th
\* <= 75th <= 95th, and probability_of_loss is the fraction of the final
\* values strictly under initial_investment, within [0, 1].
C15_PercentilesOrdered ==
    (Simulated /\ req.simulations >= 1 /\ req.time_horizon_years >= 1)
        => /\ Ordered(resp.mc.percentiles, resp.mc.varc)
           /\ (resp.mc.count = Len(resp.mc.chart))
                  => resp.mc.probability_of_loss = LossFraction
           /\ RLeq(RZero, resp.mc.probability_of_loss)
           /\ RLeq(resp.mc.probability_of_loss, ROne)

\* C16: two calls of run_monte_carlo_simulation one after the other with
\* the same request and the same prices give the same percentile outcomes,
\* wherever the generator was before each of them.
C16_Reproducible ==
    (Simulated /\ earlier # NoEarlier)
        => resp.mc.percentiles = earlier.percentiles

\* a repeated call whose draws matter: the outcomes are numbers and not all
\* the same
C16_Witness ==
    /\ Simulated /\ earlier # NoEarlier
    /\ req.simulations > 1
    /\ SIsNum(resp.mc.percentiles[1])
    /\ resp.mc.percentiles[1] # resp.mc.percentiles[5]

GeneratedValue(i) ==
    SScale(RInt(req.initial_investment),
           CumulativeReturn(MonteCarloMean(resp, frame), resp.mc.varc, GeneratorSeed,
                            (i - 1) * req.time_horizon_years,
                            req.time_horizon_years))

\* C18: chart_data.simulation_results has min(simulations, 1000) values,
\* the first ones in the order of generation, and simulations_run and the
\* statistics count every simulation requested.
C18_ChartTruncated ==
    Simulated
        => /\ Len(resp.mc.chart) = Min({req.simulations, 1000})
           /\ \A i \in DOMAIN resp.mc.chart : resp.mc.chart[i] = GeneratedValue(i)
           /\ resp.mc.run = req.simulations
           /\ resp.mc.count = req.simulations
           /\ rng.drawn = req.simulations * req.time_horizon_years

\* more simulations than the chart holds
C18_Witness ==
    /\ Simulated
    /\ req.simulations = 1001
    /\ Len(resp.mc.chart) = 1000
    /\ resp.mc.chart[1] # resp.mc.chart[2]

\* optimized weight - current weight of entry i, in units of 1 / (100 * total)
DeltaUnits(i) == resp.optimized[i] * resp.weights.den - 100 * resp.weights.num[i]

\* the current weights are numbers
Weighted ==
    /\ IsNum(resp.weights.den) /\ resp.weights.den > 0
    /\ \A i \in DOMAIN resp.weights.num : IsNum(resp.weights.num[i])

Traded == {i \in DOMAIN resp.optimized : Abs(DeltaUnits(i)) > resp.weights.den}

\* C19: the recommended action of a symbol is "buy" exactly when optimized
\* weight - current weight > 0.01, "sell" exactly when it is < -0.01 and
\* "hold" otherwise (at exactly 0.01 too), and the rebalancing cost is 0.1%
\* of the sum of |delta x total value| over the buy and sell symbols.
C19_Recommendations ==
    (Handled /\ op = "optimize" /\ resp.status = 200 /\ Weighted)
        => /\ DOMAIN resp.rebalance.allocations = DOMAIN resp.optimized
           /\ \A i \in DOMAIN resp.optimized :
                LET action == resp.rebalance.allocations[i].recommended_action
                IN  /\ (action = "buy") <=> (DeltaUnits(i) > resp.weights.den)
                    /\ (action = "sell") <=> (DeltaUnits(i) < 0 - resp.weights.den)
                    /\ (action = "hold") <=> (i \notin Traded)
           /\ resp.rebalance.cost =
                  Rat(SumInts([i \in DOMAIN resp.optimized |->
                          IF i \in Traded THEN Abs(DeltaUnits(i)) ELSE 0]), 100000)

\* five entries of a fifth each, with one moved up and one down by exactly
\* 0.01 (both hold), one bought and one sold
C19_Witness ==
    /\ Handled /\ op = "optimize" /\ resp.status = 200 /\ Weighted
    /\ \E i, j, k, l \in DOMAIN resp.optimized :
          /\ DeltaUnits(i) = resp.weights.den
          /\ DeltaUnits(j) = 0 - resp.weights.den
          /\ resp.rebalance.allocations[i].recommended_action = "hold"
          /\ resp.rebalance.allocations[j].recommended_action = "hold"
          /\ resp.rebalance.allocations[k].recommended_action = "buy"
          /\ resp.rebalance.allocations[l].recommended_action = "sell"
    /\ RLt(RZero, resp.rebalance.cost)

\* C20: when the solver reports that it has not converged, optimize_portfolio
\* fails with the optimization-failed error and returns nothing derived from
\* the solver's vector: no weights, allocations or metrics.
C20_NoUnconvergedResult ==
    (Handled /\ op = "optimize" /\ resp.solver # NoSolve /\ ~resp.solver.success)
        => /\ resp.kind = "optimization_failed"
           /\ resp.raised = 500
           /\ resp.status = 500
           /\ resp.optimized = <<>>
           /\ resp.rebalance = NoRebalance
           /\ ~resp.optStats.present

\* the solver stopped at a vector within the bounds that sums to 1
C20_Witness ==
    /\ Handled /\ op = "optimize"
    /\ ~resp.solver.success
    /\ resp.solver.x = <<20, 20, 20, 20, 20>>
    /\ resp.kind = "optimization_failed"

\* the returns of the valid symbol i alone, on the rows of the tail that
\* the valid symbols share
ReturnsOf(i) ==
    PortfolioReturns(resp.valid,
                     [k \in DOMAIN resp.valid |-> IF k = i THEN ROne ELSE RZero],
                     frame)

\* the covariance of the returns of the two valid symbols is negative: with
\* n returns, n * sum(a * b) < sum(a) * sum(b)
NegativelyCorrelated ==
    LET a == ReturnsOf(1)
        b == ReturnsOf(2)
        n == HeadReturnRows(Range(resp.valid), frame) + Len(a)
    IN  RLt(RMul(RInt(n), RSum([t \in DOMAIN a |-> RMul(a[t], b[t])])),
            RMul(RSum(a), RSum(b)))

\* a result of min_volatility for two negatively correlated symbols held
\* with a total value that is a number above 0
MinVolatilityResult ==
    /\ Handled /\ op = "optimize" /\ resp.status = 200
    /\ req.objective = "min_volatility"
    /\ Len(resp.valid) = 2
    /\ IsNum(resp.total) /\ resp.total > 0
    /\ NegativelyCorrelated

\* C21 as stated: min_volatility on two negatively correlated assets returns
\* an expected volatility lower than the volatility of the current
\* allocation, for any current weights.
C21_AlwaysLowerVolatility ==
    MinVolatilityResult => RLt(resp.optStats.volsq, resp.stats.volsq)

\* C21 amended: the expected volatility of a min_volatility result on two
\* negatively correlated assets is never above the volatility of the current
\* allocation, and it is lower whenever the optimized weights are not the
\* current weights; when they are, the two volatilities are equal.
C21_LowerVolatility ==
    MinVolatilityResult
        => \/ RLt(resp.optStats.volsq, resp.stats.volsq)
           \/ /\ \A i \in DOMAIN resp.optimized : DeltaUnits(i) = 0
              /\ resp.optStats.volsq = resp.stats.volsq

\* the whole value is held in one of the two assets and the result spreads
\* it over both, at a lower volatility
C21_Witness ==
    /\ MinVolatilityResult
    /\ \E i \in DOMAIN resp.weights.num : resp.weights.num[i] = 0
    /\ \A i \in DOMAIN resp.optimized : resp.optimized[i] > 0
    /\ RLt(resp.optStats.volsq, resp.stats.volsq)

\* the function that each objective key selects
SelectedObjective ==
    CASE req.objective = "max_sharpe" -> "negative_sharpe_ratio"
      [] req.objective = "min_volatility" -> "minimize_volatility"
      [] req.objective = "max_return" -> "negative_return"
      [] OTHER -> "negative_sharpe_ratio"

\* C22: the objective handed to the solver is the negative Sharpe ratio for
\* the key max_sharpe, the volatility for min_volatility, the negative
\* return for max_return and the negative Sharpe ratio for every other key;
\* the key raises no error: a call whose solver converges returns a result
\* under every key.
C22_ObjectiveSelected ==
    (Handled /\ op = "optimize" /\ resp.solver # NoSolve)
        => /\ resp.objective = SelectedObjective
           /\ (resp.solver.success
                  /\ Dedup(SymbolList(req.assets)) = SymbolList(req.assets))
                 => resp.status = 200

\* a key in other letters: the solver has had the negative Sharpe ratio and
\* the call returns its result
C22_Witness ==
    /\ Handled /\ op = "optimize"
    /\ req.objective = "MAX_SHARPE"
    /\ resp.objective = "negative_sharpe_ratio"
    /\ resp.solver.success
    /\ resp.status = 200

\* C23: the last row of the price panel, from which a handler takes the
\* current prices, has a price for every retained symbol, also when the
\* histories of the symbols cover different dates: every value shares x
\* last close of a response is a number.
C23_PanelOnCommonDates ==
    (Handled /\ op \in {"analyze", "optimize", "montecarlo"} /\ resp.status = 200)
        => \A i \in DOMAIN resp.weights.syms :
              /\ IsNum(resp.weights.num[i])
              /\ IsNum(Cell(frame[resp.weights.syms[i]],
                            Max({LastObs(frame[s]) : s \in Range(resp.weights.syms)})))

\* the square of std_return when every return is multiplied by the weight of
\* its own symbol
VarianceBySymbol ==
    Variance(HeadReturnRows(Range(resp.weights.syms), frame),
             PortfolioReturns(resp.weights.syms, WeightFractions(resp.weights), frame))

\* C24: in run_monte_carlo_simulation every return is multiplied by the
\* weight of its own symbol, for any order in which the request lists the
\* symbols and any order of the columns of the download: the variance the
\* simulation draws with is that of the returns weighted symbol by symbol.
C24_WeightsPairedBySymbol ==
    (Simulated /\ resp.mc.run > 0) => resp.mc.varc = VarianceBySymbol

\* C25: when DATABASE_URL is set and the database is reachable, the startup
\* event of src/fastapi-service succeeds and GET /health reports
\* 'connected', in any order of the events, before any request has called
\* get_engine() included.
C25_DatabaseTested ==
    (service.DATABASE_URL /\ service.reachable) =>
        /\ service.startup # "failed"
        /\ service.health \in {"none", "connected"}

\* C26: every wrapper that register_analyzer stored calls the method it was
\* registered for: the wrapper under '<analyzer>_<attr>' calls the attribute
\* <attr> of the analyzer, for tools and for resources, whatever the number
\* of tools and the order of the registrations.
C26_WrapperCallsOwnMethod ==
    server.called.kind # "none" => server.called.attr = server.called.key[2]

\* valid_symbols of the request being handled
ValidSymbols == OptimizeValid(SymbolList(req.assets), frame)

\* C27: when the number n of valid symbols and the weight cap c chosen from
\* risk_tolerance satisfy n * c < 1, no vector within the bounds sums to 1
\* and optimize_portfolio returns no result: the call ends in an error.
C27_InfeasibleNeverReturns ==
    (Handled /\ op = "optimize"
        /\ Len(ValidSymbols) * WeightCap(req.tol) < 100)
        => /\ resp.status # 200
           /\ resp.optimized = <<>>

\* two valid symbols with an aggressive tolerance have reached the solver,
\* which did not converge
C27_Witness ==
    /\ Handled /\ op = "optimize"
    /\ Len(ValidSymbols) * WeightCap(req.tol) < 100
    /\ Len(ValidSymbols) = 2 /\ req.tol > ToleranceAggressive
    /\ resp.solver # NoSolve
    /\ resp.kind = "optimization_failed"

\* the portfolio i of the request has no market data, a total value of zero,
\* or market data of a single row, which gives no returns
NothingToAnalyse(i) ==
    LET keys == resp.fetched[i]
    IN  \/ keys = <<>>
        \/ \A k \in DOMAIN req.portfolios[i] :
              req.portfolios[i][k].symbol \in Range(keys)
                  => req.portfolios[i][k].quantity = 0
        \/ ReturnRows(keys, market) = 0

\* C28: calculate_portfolio_risk returns, when it returns a results map, one
\* entry per portfolio, each a full record of metrics or an error record; a
\* portfolio with no market data, a total value of zero or no returns gets
\* an error entry and does not keep the call from going on to the others.
C28_OneEntryPerPortfolio ==
    (Handled /\ op = "risk")
        => /\ resp.kind = "ok" => Len(resp.results) = Len(req.portfolios)
           /\ \A i \in DOMAIN resp.results :
                 \/ resp.results[i].error = "none"
                 \/ resp.results[i] = ErrorEntry(resp.results[i].error)
           /\ \A i \in DOMAIN resp.fetched :
                 NothingToAnalyse(i)
                     => /\ i \in DOMAIN resp.results
                        /\ resp.results[i].error # "none"

\* C29: in a successful optimize_portfolio result the recommended trades are
\* budget-neutral: the values to trade, (optimized weight - current weight)
\* x total value, sum to 0 over the symbols, and every valid symbol is in
\* exactly one allocation entry.
C29_BudgetNeutral ==
    (Handled /\ op = "optimize" /\ resp.status = 200)
        => LET allocations == resp.rebalance.allocations
           IN  /\ RSum([i \in DOMAIN allocations |-> allocations[i].value_to_trade])
                      = RZero
               /\ \A s \in Range(resp.valid) :
                     Cardinality({i \in DOMAIN allocations :
                                     allocations[i].symbol = s}) = 1

\* the sum of shares x last close over the entries of the request whose
\* symbol is in the price panel, the last close being that of the last row
\* of the panel
ValueOfEntries ==
    LET last    == Max({LastObs(frame[s]) : s \in Range(resp.valid)})
        entries == SelectSeq(req.assets, LAMBDA a : a.symbol \in Range(resp.valid))
    IN  SumSeq([i \in DOMAIN entries |->
            FMul(entries[i].shares, Cell(frame[entries[i].symbol], last))])

\* C30: when the request of analyze_portfolio lists a symbol in more than
\* one entry, the total value is the sum over all entries of shares x last
\* close: the quantities of the entries are added and none is discarded.
C30_DuplicatesAdded ==
    (Handled /\ op = "analyze" /\ resp.status = 200)
        => resp.total = ValueOfEntries

====
